---------------------------- MODULE Spec2Model ----------------------------
(***************************************************************************)
(* Record storage and batch-ingestion pipeline of the car rental system    *)
(* (src/as.cpp): validator, parser/serializer, transactional file writer,  *)
(* stream pipeline, storage backends, repository and batch processor.      *)
(*                                                                         *)
(* A std::string is a sequence of one-character strings, so that splitting *)
(* a line on ',' and printing / reading a number are computed as the code  *)
(* computes them.  A double is a decimal number m * 10^e (class "fin"),    *)
(* or "inf" / "nan".                                                       *)
(***************************************************************************)
EXTENDS Integers, Sequences, FiniteSets, TLC

(***************************************************************************)
(* Characters and strings                                                  *)
(***************************************************************************)

\* The characters the model uses, in ASCII order (std::string compares by
\* character code).
Ascii ==
  << " ", "+", ",", "-", ".",
     "0", "1", "2", "3", "4", "5", "6", "7", "8", "9", ":",
     "A", "D", "H", "I", "N", "R",
     "a", "b", "c", "d", "e", "f", "g", "h", "i", "j", "k", "l", "m",
     "n", "o", "p", "r", "s", "t", "u", "v", "w", "x", "y", "z" >>

CharCode(c) == CHOOSE i \in 1..Len(Ascii) : Ascii[i] = c

Digits == << "0", "1", "2", "3", "4", "5", "6", "7", "8", "9" >>

IsDigit(c) == \E i \in 1..10 : Digits[i] = c

DigitVal(c) == (CHOOSE i \in 1..10 : Digits[i] = c) - 1

\* std::string operator< : lexicographic by character code.
RECURSIVE StrLess(_, _)
StrLess(s, t) ==
  IF t = << >> THEN FALSE
  ELSE IF s = << >> THEN TRUE
  ELSE IF s[1] # t[1] THEN CharCode(s[1]) < CharCode(t[1])
  ELSE StrLess(Tail(s), Tail(t))

RECURSIVE Pow10(_)
Pow10(n) == IF n <= 0 THEN 1 ELSE 10 * Pow10(n - 1)

(***************************************************************************)
(* Numbers: the double pricePerDay                                         *)
(***************************************************************************)

\* m * 10^e with m not divisible by 10 (0 is m = 0, e = 0).
RECURSIVE Norm(_, _)
Norm(m, e) ==
  IF m = 0 THEN [cls |-> "fin", m |-> 0, e |-> 0]
  ELSE IF m % 10 = 0 THEN Norm(m \div 10, e + 1)
  ELSE [cls |-> "fin", m |-> m, e |-> e]

Num(n) == Norm(n, 0)
Inf == [cls |-> "inf", m |-> 1, e |-> 0]
NaN == [cls |-> "nan", m |-> 0, e |-> 0]

\* std::isfinite(x) and x > 0
isfinite(x) == x.cls = "fin"
Positive(x) == (x.cls = "fin" /\ x.m > 0) \/ (x.cls = "inf" /\ x.m > 0)

\* The decimal digits of a natural number, most significant first.
RECURSIVE DigitsOf(_)
DigitsOf(n) ==
  IF n < 10 THEN << Digits[n + 1] >>
  ELSE Append(DigitsOf(n \div 10), Digits[(n % 10) + 1])

\* The run of digits at the start of s, as <<value, count>>.
RECURSIVE DigitRun(_, _, _)
DigitRun(s, acc, cnt) ==
  IF s # << >> /\ IsDigit(s[1])
  THEN DigitRun(Tail(s), 10 * acc + DigitVal(s[1]), cnt + 1)
  ELSE << acc, cnt >>

Drop(s, n) == SubSeq(s, n + 1, Len(s))

RECURSIVE SkipSpaces(_)
SkipSpaces(s) == IF s # << >> /\ s[1] = " " THEN SkipSpaces(Tail(s)) ELSE s

StartsWith(s, p) == Len(s) >= Len(p) /\ SubSeq(s, 1, Len(p)) = p

\* std::stod(token): skips leading white space, reads the longest prefix that
\* is a number (sign, digits, fraction, exponent, or inf / nan) and ignores
\* what follows; with no such prefix it throws std::invalid_argument
\* (ok = FALSE).  Each part of the number is read by an operator of its own,
\* which hands what it read to the next.
stodExponent(s, sgn, mant, k, esgn, ep) ==
  [ok |-> TRUE,
   val |-> Norm(sgn * mant, (IF ep[2] = 0 THEN 0 ELSE esgn * ep[1]) - k)]

stodExponentSign(s, sgn, mant, k, esgn) ==
  stodExponent(s, sgn, mant, k, esgn, DigitRun(s, 0, 0))

stodAfterFraction(s, sgn, mant, k) ==
  IF s # << >> /\ s[1] = "e"
  THEN stodExponentSign(
         IF Len(s) > 1 /\ s[2] \in { "-", "+" } THEN Drop(s, 2) ELSE Tail(s),
         sgn, mant, k,
         IF Len(s) > 1 /\ s[2] = "-" THEN 0 - 1 ELSE 1)
  ELSE [ok |-> TRUE, val |-> Norm(sgn * mant, 0 - k)]

stodFraction(s, sgn, ip, fp) ==
  IF ip[2] + fp[2] = 0 THEN [ok |-> FALSE, val |-> NaN]
  ELSE stodAfterFraction(Drop(s, fp[2]), sgn, ip[1] * Pow10(fp[2]) + fp[1], fp[2])

stodAfterInteger(s, sgn, ip) ==
  stodFraction(IF s # << >> /\ s[1] = "." THEN Tail(s) ELSE s, sgn, ip,
               IF s # << >> /\ s[1] = "." THEN DigitRun(Tail(s), 0, 0)
               ELSE << 0, 0 >>)

stodInteger(s, sgn, ip) == stodAfterInteger(Drop(s, ip[2]), sgn, ip)

stodMagnitude(s, sgn) ==
  IF StartsWith(s, << "i", "n", "f" >>)
    THEN [ok |-> TRUE, val |-> [Inf EXCEPT !.m = sgn]]
  ELSE IF StartsWith(s, << "n", "a", "n" >>)
    THEN [ok |-> TRUE, val |-> NaN]
  ELSE stodInteger(s, sgn, DigitRun(s, 0, 0))

stodSign(s) ==
  stodMagnitude(IF s # << >> /\ s[1] \in { "-", "+" } THEN Tail(s) ELSE s,
                IF s # << >> /\ s[1] = "-" THEN 0 - 1 ELSE 1)

stod(token) == stodSign(SkipSpaces(token))

RECURSIVE Zeros(_)
Zeros(n) == IF n <= 0 THEN << >> ELSE << "0" >> \o Zeros(n - 1)

\* Precision: the default precision of std::ostream (6 significant digits).
Precision == 6

\* d.ddddde+XX: the digits d of the number and the exponent p of the first
FormatScientific(d, p) ==
  << d[1] >> \o (IF Len(d) = 1 THEN << >> ELSE << "." >> \o Tail(d))
  \o << "e" >> \o (IF p < 0 THEN << "-" >> ELSE << "+" >>)
  \o (IF p > 0 - 10 /\ p < 10 THEN << "0" >> ELSE << >>)
  \o DigitsOf(IF p < 0 THEN 0 - p ELSE p)

\* The digits d times 10^e, written without an exponent.
FormatFixed(d, e) ==
  IF e >= 0 THEN d \o Zeros(e)
  ELSE IF Len(d) > 0 - e
    THEN SubSeq(d, 1, Len(d) + e) \o << "." >> \o SubSeq(d, Len(d) + e + 1, Len(d))
  ELSE << "0", "." >> \o Zeros((0 - e) - Len(d)) \o d

\* %g: scientific when the exponent of the first digit is below -4 or not
\* below the precision.
FormatDigits(d, e) ==
  IF Len(d) - 1 + e < 0 - 4 \/ Len(d) - 1 + e >= Precision
  THEN FormatScientific(d, Len(d) - 1 + e)
  ELSE FormatFixed(d, e)

FormatRounded(v) == FormatDigits(DigitsOf(v.m), v.e)

RoundHalfEven(q, r, half) ==
  IF r > half \/ (r = half /\ q % 2 = 1) THEN q + 1 ELSE q

\* a * 10^e rounded to Precision significant digits; cut is how many digits
\* a has too many.
RoundCut(a, e, cut) ==
  IF cut <= 0 THEN Norm(a, e)
  ELSE Norm(RoundHalfEven(a \div Pow10(cut), a % Pow10(cut), 5 * Pow10(cut - 1)),
            e + cut)

RoundSignificant(a, e) == RoundCut(a, e, Len(DigitsOf(a)) - Precision)

\* operator<<(std::ostream &, double) with the default format: %g with 6
\* significant digits, rounded half-to-even, trailing zeros removed.
FormatDouble(x) ==
  IF x.cls = "nan" THEN << "n", "a", "n" >>
  ELSE IF x.cls = "inf"
    THEN (IF x.m < 0 THEN << "-" >> ELSE << >>) \o << "i", "n", "f" >>
  ELSE IF x.m = 0 THEN << "0" >>
  ELSE (IF x.m < 0 THEN << "-" >> ELSE << >>)
       \o FormatRounded(RoundSignificant(IF x.m < 0 THEN 0 - x.m ELSE x.m, x.e))

(***************************************************************************)
(* CarRecord and CarRecordValidator                                        *)
(***************************************************************************)

Available    == << "A", "v", "a", "i", "l", "a", "b", "l", "e" >>
excellent    == << "e", "x", "c", "e", "l", "l", "e", "n", "t" >>
good         == << "g", "o", "o", "d" >>
fair         == << "f", "a", "i", "r" >>
minordamages == << "m", "i", "n", "o", "r", "d", "a", "m", "a", "g", "e", "s" >>
majordamages == << "m", "a", "j", "o", "r", "d", "a", "m", "a", "g", "e", "s" >>

CarRecord(id, model, condition, price, status) ==
  [id |-> id, model |-> model, condition |-> condition,
   pricePerDay |-> price, status |-> status]

\* CarRecordValidator::validate, the list of allowed conditions
allowed == { excellent, good, fair, minordamages, majordamages }

\* validate with one of its three checks dropped: the forms a slip in the
\* validator would take.
validateNoCondition(record) ==
  /\ ~(record.id = << >> \/ record.model = << >>)
  /\ ~(~isfinite(record.pricePerDay) \/ ~Positive(record.pricePerDay))

validate(record) ==
  /\ ~(record.id = << >> \/ record.model = << >>)
  /\ record.condition \in allowed
  /\ ~(~isfinite(record.pricePerDay) \/ ~Positive(record.pricePerDay))

(***************************************************************************)
(* CarRecordParser                                                         *)
(***************************************************************************)

\* The loop `while (std::getline(ss, token, ','))`: every getline that
\* extracts at least one character (a token or its delimiter) yields a token;
\* at the end of the text it fails, so a trailing comma adds no empty token.
RECURSIVE getline(_, _)
getline(s, token) ==
  IF s = << >> THEN [token |-> token, rest |-> << >>]
  ELSE IF s[1] = "," THEN [token |-> token, rest |-> Tail(s)]
  ELSE getline(Tail(s), Append(token, s[1]))

TokensFrom(g) == << g.token >>

RECURSIVE Tokens(_)
Tokens(s) ==
  IF s = << >> THEN << >>
  ELSE TokensFrom(getline(s, << >>)) \o Tokens(getline(s, << >>).rest)

NoRecord == CarRecord(<< >>, << >>, << >>, NaN, << >>)

Outcome(kind, rec) == [kind |-> kind, rec |-> rec]

\* The token parse reads the price from (src/as.cpp:79)
PriceToken(tokens) == IF Len(tokens) > 4 THEN tokens[4] ELSE tokens[3]

\* The record parse assembles from at least 4 tokens (src/as.cpp:74-83).
Assemble(tokens, price) ==
  CarRecord(tokens[1],
            IF Len(tokens) > 4 THEN tokens[2] ELSE tokens[1],
            IF Len(tokens) > 4 THEN tokens[3] ELSE tokens[2],
            price,
            IF Len(tokens) > 4 THEN tokens[5]
            ELSE IF Len(tokens) > 3 THEN tokens[4] ELSE Available)

\* parse that returns the assembled record without running the validator
parseUnvalidated(record) == Outcome("record", record)

\* lines 85-89: the validator decides between the record and ValidationFailed
parseValidated(record) ==
  IF ~validate(record) THEN Outcome("ValidationFailed", NoRecord)
  ELSE Outcome("record", record)

\* lines 79 and 74-83: std::stod throws, or the record is assembled
parsePriced(tokens, price) ==
  IF ~price.ok THEN Outcome("InvalidNumber", NoRecord)
  ELSE parseValidated(Assemble(tokens, price.val))

\* parse that takes a line of more than 5 tokens for malformed
parseTokensAtMostFive(tokens) ==
  IF Len(tokens) < 4 \/ Len(tokens) > 5 THEN Outcome("MalformedRecord", NoRecord)
  ELSE parsePriced(tokens, stod(PriceToken(tokens)))

\* parse with the limit of line 70 at 3: a line of 3 tokens takes the
\* default status of line 80
parseTokensAtLeastThree(tokens) ==
  IF Len(tokens) < 3 THEN Outcome("MalformedRecord", NoRecord)
  ELSE parsePriced(tokens, stod(PriceToken(tokens)))

\* lines 70-72: fewer than 4 tokens
parseTokens(tokens) ==
  IF Len(tokens) < 4 THEN Outcome("MalformedRecord", NoRecord)
  ELSE parsePriced(tokens, stod(PriceToken(tokens)))

\* CarRecordParser::parse: the outcome is a record, none (empty line), or the
\* error thrown.
parse(line) ==
  IF line = << >> THEN Outcome("none", NoRecord) ELSE parseTokens(Tokens(line))

\* CarRecordParser::serialize: the line, or ok = FALSE when it throws.
serialize(record) ==
  IF ~validate(record) THEN [ok |-> FALSE, line |-> << >>]
  ELSE [ok |-> TRUE,
        line |-> record.id \o << "," >> \o record.model \o << "," >>
                 \o record.condition \o << "," >>
                 \o FormatDouble(record.pricePerDay) \o << "," >>
                 \o record.status]

(***************************************************************************)
(* State                                                                   *)
(***************************************************************************)

VARIABLES
  \* a call of CarRecordParser: serialize(precord) and / or parse(pline)
  ppc,        \* "idle"; "record": serialize is next; "line": parse is next;
              \* "threw": serialize threw; "parsed": parse has returned
  precord,    \* the record given to serialize (NoRecord when a line was given)
  pline,      \* the line given to parse
  presult,    \* what parse returned or threw
  \* the file system: the target file and its sibling target + ".tmp"
  target,
  tmp,
  \* a call of TransactionalFileWriter::write
  wpc,        \* "idle", "open", "write", "closed", "rename", "done", "threw"
  wlines,     \* the argument lines
  wpos,       \* how many lines the loop has put to the stream
  wbad,       \* the output stream is in a failed state
  wold,       \* the target file as it was when write was called
  \* the storage backend
  kind,       \* "file" (FileStorageBackend on target) or "memory"
  mem,        \* MemoryStorageBackend::records_
  \* CarRepository
  records,    \* records_: a function from the keys present to records
  dirty,      \* dirty_
  \* what the last repository operation did
  op,         \* its name, its arguments (input), whether it returned normally
              \* (ok; for a bool method: that it returned true), the error
              \* it threw (err, or "none"), dirty_ before it,
              \* its calls of persistCars and their argument, and whether the
              \* operation before it was a flush too (again)
  written,    \* per id, the record last written by upsert / bulkUpsert or
              \* loaded, while only those have run since the last load (pure)
  pure,
  mutated,    \* a mutation has run since the last successful flush or reload
  \* a call of BatchProcessor::ingest
  ipc,        \* "idle", "stream", "tail", "returned", "threw"
  source,     \* the source file as it was when ingest was called
  src,        \* the lines of it not yet read
  chunk,      \* chunkSize
  buffer,     \* the local buffer
  metrics,    \* the local metrics
  ifail,      \* persistCars has raised during this call
  ilog,       \* what this call did: the error it threw (err), whether it
              \* has consulted the file system for the source (touched), and
              \* the records stream has handed to the callback (delivered)
  \* the caller of RentalService
  amountDue,  \* the double the caller passes to rentCar by reference
  renter,     \* per car id: the user of the last rentCar on it that returned
              \* true, while no returnCar has been called on it and no ingest
              \* has replaced its record since
  \* two concurrent calls of TransactionalFileWriter::write on one target
  cw,         \* per writer: where it is (pc), its argument lines, how many
              \* of them it has put to its stream (pos) and the file its
              \* stream is open on (fd, 0: none)
  inodes,     \* the content of every file there is, named or not
  names       \* the file each of the paths target and target + ".tmp" names
              \* (0: none)

parserVars  == << ppc, precord, pline, presult >>
fsVars      == << target, tmp >>
writerVars  == << wpc, wlines, wpos, wbad, wold >>
backendVars == << kind, mem >>
repoVars    == << records, dirty >>
ghostVars   == << op, written, pure, mutated >>
ingestVars  == << ipc, source, src, chunk, buffer, metrics, ifail, ilog >>
callerVars  == << amountDue, renter >>
raceVars    == << cw, inodes, names >>

vars ==
  << parserVars, fsVars, writerVars, backendVars, repoVars, ghostVars,
     ingestVars, callerVars, raceVars >>

\* A file is absent, or holds lines (each written with its '\n').
NoFile == [exists |-> FALSE, lines |-> << >>]
File(lines) == [exists |-> TRUE, lines |-> lines]

\* records_ with no entry
EmptyMap == [k \in {} |-> NoRecord]

\* The arguments of a repository operation: the id and the mutator of
\* update, the records of upsert (one) and bulkUpsert
Input(id, mutator, seq) == [id |-> id, mutator |-> mutator, seq |-> seq]

NoInput == Input(<< >>, "none", << >>)

Op(name, input, ok, err, wasDirty, calls, arg, again) ==
  [name |-> name, input |-> input, ok |-> ok, err |-> err, wasDirty |-> wasDirty,
   calls |-> calls, arg |-> arg, again |-> again]

NoMetrics == [processedRecords |-> 0, batches |-> 0]

Log(err, touched, delivered) ==
  [err |-> err, touched |-> touched, delivered |-> delivered]

NoLog == Log("none", FALSE, << >>)

ParserIdle ==
  /\ ppc = "idle"
  /\ precord = NoRecord
  /\ pline = << >>
  /\ presult = Outcome("none", NoRecord)

WriterIdle ==
  /\ wpc = "idle"
  /\ wlines = << >>
  /\ wpos = 0
  /\ wbad = FALSE
  /\ wold = NoFile

\* No repository: the parser and the writer on their own.
RepositoryIdle ==
  /\ kind = "memory"
  /\ mem = << >>
  /\ records = EmptyMap
  /\ dirty = FALSE
  /\ op = Op("init", NoInput, TRUE, "none", FALSE, 0, << >>, FALSE)
  /\ written = EmptyMap
  /\ pure = TRUE
  /\ mutated = FALSE

IngestIdle ==
  /\ ipc = "idle"
  /\ source = NoFile
  /\ src = << >>
  /\ chunk = 0
  /\ buffer = << >>
  /\ metrics = NoMetrics
  /\ ifail = FALSE
  /\ ilog = NoLog

\* double quotedAmount = 0 (src/tests/unit_tests.cpp:30)
CallerIdle ==
  /\ amountDue = Num(0)
  /\ renter = [c \in {} |-> << >>]

\* The two writers of a concurrent pair of calls
Writers == { 1, 2 }

NoWriter == [pc |-> "idle", lines |-> << >>, pos |-> 0, fd |-> 0]

NoNames == [target |-> 0, tmp |-> 0]

RaceIdle ==
  /\ cw = [w \in Writers |-> NoWriter]
  /\ inodes = << >>
  /\ names = NoNames

BoundedSeqs(S, n) == UNION { [1..k -> S] : k \in 0..n }

\* "Rented by the user ID: " + userId, for the users u and v
RentedBy ==
  << "R", "e", "n", "t", "e", "d", " ", "b", "y", " ", "t", "h", "e", " ",
     "u", "s", "e", "r", " ", "I", "D", ":", " " >>

RentedByU == RentedBy \o << "u" >>
RentedByV == RentedBy \o << "v" >>

\* The records the repository, the writer and the batch processor are
\* exercised with.  CarZero fails validation (its price is 0).
CarA    == CarRecord(<< "a" >>, << "m" >>, good, Num(25), Available)
CarA2   == CarRecord(<< "a" >>, << "x" >>, fair, Num(30), Available)
CarB    == CarRecord(<< "b" >>, << "n" >>, good, Num(40), Available)
CarZero == CarRecord(<< "b" >>, << "m" >>, good, Num(0), Available)

LineOf(record) == serialize(record).line

(***************************************************************************)
(* The parser on its own: serialize a record and parse the line, or parse  *)
(* a given line                                                            *)
(***************************************************************************)

\* Bound: the most comma-separated fields of a generated line.
MaxFields == 5

RECURSIVE Join(_)
Join(fields) ==
  IF fields = << >> THEN << >>
  ELSE IF Len(fields) = 1 THEN fields[1]
  ELSE fields[1] \o << "," >> \o Join(Tail(fields))

\* The fields generated lines are made of: empty, a name, a condition, a
\* price, a price that fails validation, text that only starts with a digit.
LineFields == { << >>, << "a" >>, good, << "2", "5" >>, << "0" >>, << "2", "x" >> }

ScenarioLine ==
  Join(<< << "c", "a", "r", "-", "0", "0", "1" >>,
          << "H", "o", "r", "i", "z", "o", "n" >>, excellent,
          << "2", "5", "0", "0" >>, Available >>)

ScenarioBadLine ==
  Join(<< << "b", "a", "d" >>, << "u", "n", "k", "n", "o", "w", "n" >>,
          << "1", "0", "0", "0" >>, Available >>)

\* The 6-field line of src/tests/unit_tests.cpp:12
ScenarioLongLine == ScenarioLine \o << ",", "N", "o", "n", "e" >>

\* Lines: up to MaxFields fields, as they are, with a trailing comma, or with
\* one more field; and the lines of the documented scenarios.
LineInputs ==
  { Join(f) \o tail : f \in BoundedSeqs(LineFields, MaxFields),
                      tail \in { << >>, << "," >>, << ",", "a" >> } }
  \cup { ScenarioLine, ScenarioBadLine, ScenarioLongLine }

\* Conditions spelt with a hyphen, which the validator's list does not hold
minorDamage == << "m", "i", "n", "o", "r", "-", "d", "a", "m", "a", "g", "e" >>
majorDamage == << "m", "a", "j", "o", "r", "-", "d", "a", "m", "a", "g", "e" >>

\* Records given to serialize: valid ones and ones failing each check (every
\* listed condition and three unlisted ones; prices that are zero, negative,
\* infinite or no number), with a status that is empty, and a price of more
\* than 6 significant digits.
RecordInputs ==
  { CarRecord(id, model, condition, price, status) :
      id \in { << "a" >>, << >>, << "a", ",", "b" >> },
      model \in { << "m" >>, << >> },
      condition \in allowed \cup { << "b", "a", "d" >>, minorDamage, majorDamage },
      price \in { Num(25), Num(0), Num(0 - 5), Num(2500), Num(1234567),
                  Norm(15, 0 - 1), Inf, NaN },
      status \in { Available, << >>, RentedByU } }

ParserInit ==
  /\ \/ /\ ppc = "record"
        /\ precord \in RecordInputs
        /\ pline = << >>
     \/ /\ ppc = "line"
        /\ precord = NoRecord
        /\ pline \in LineInputs
  /\ presult = Outcome("none", NoRecord)
  /\ target = NoFile
  /\ tmp = NoFile
  /\ WriterIdle
  /\ RepositoryIdle
  /\ IngestIdle
  /\ CallerIdle
  /\ RaceIdle

notParser ==
  << fsVars, writerVars, backendVars, repoVars, ghostVars, ingestVars, callerVars,
     raceVars >>

Serialize ==
  /\ ppc = "record"
  /\ \E s \in { serialize(precord) } :
       /\ ppc' = IF s.ok THEN "line" ELSE "threw"
       /\ pline' = s.line
  /\ UNCHANGED << precord, presult, notParser >>

Parse ==
  /\ ppc = "line"
  /\ presult' = parse(pline)
  /\ ppc' = "parsed"
  /\ UNCHANGED << precord, pline, notParser >>

ParserNext ==
  \/ Serialize
  \/ Parse

SpecParser == ParserInit /\ [][ParserNext]_vars

(***************************************************************************)
(* TransactionalFileWriter::write, statement by statement, with the file   *)
(* system's failures: the temporary file may fail to open, an output       *)
(* operation may fail (the stream then ignores all later output; nothing   *)
(* is thrown, std::ofstream has no exceptions enabled), remove and rename  *)
(* may throw.  Output is modelled line by line.                            *)
(***************************************************************************)

\* Bound: the most lines one call of write is given.
MaxLines == 2

WriterLines == { LineOf(CarA), LineOf(CarB) }

notWriter ==
  << parserVars, backendVars, repoVars, ghostVars, ingestVars, callerVars,
     raceVars >>

\* lines 112-124: write is called; the paths are resolved
WriteCall ==
  /\ wpc = "idle"
  /\ \E lines \in BoundedSeqs(WriterLines, MaxLines) : wlines' = lines
  /\ wpc' = "open"
  /\ wold' = target
  /\ wpos' = 0
  /\ wbad' = FALSE
  /\ UNCHANGED << fsVars, notWriter >>

\* write that removes the target before it opens the temporary file
OpenTmpAfterRemove ==
  /\ wpc = "open"
  /\ \/ /\ tmp' = File(<< >>)
        /\ wpc' = "write"
        /\ UNCHANGED target
     \/ /\ wpc' = "threw"
        /\ target' = NoFile
        /\ UNCHANGED tmp
  /\ UNCHANGED << wlines, wpos, wbad, wold, notWriter >>

\* lines 126-129: std::ofstream output(tmpPath, binary | trunc)
OpenTmp ==
  /\ wpc = "open"
  /\ \/ /\ tmp' = File(<< >>)
        /\ wpc' = "write"
     \/ /\ wpc' = "threw"
        /\ UNCHANGED tmp
  /\ UNCHANGED << target, wlines, wpos, wbad, wold, notWriter >>

\* lines 133-135: output << line << '\n'
WriteLine ==
  /\ wpc = "write"
  /\ wpos < Len(wlines)
  /\ wpos' = wpos + 1
  /\ \/ /\ ~wbad
        /\ tmp' = File(Append(tmp.lines, wlines[wpos + 1]))
        /\ UNCHANGED wbad
     \/ /\ wbad' = TRUE
        /\ UNCHANGED tmp
  /\ UNCHANGED << target, wpc, wlines, wold, notWriter >>

\* lines 136-137: output.flush(); output.close(); the stream's state is not
\* looked at
CloseTmp ==
  /\ wpc = "write"
  /\ wpos = Len(wlines)
  /\ wpc' = "closed"
  /\ UNCHANGED << fsVars, wlines, wpos, wbad, wold, notWriter >>

\* lines 139-141: if (fs::exists(target)) fs::remove(target)
RemoveTarget ==
  /\ wpc = "closed"
  /\ \/ /\ target' = NoFile
        /\ wpc' = "rename"
     \/ /\ target.exists
        /\ wpc' = "threw"
        /\ UNCHANGED target
  /\ UNCHANGED << tmp, wlines, wpos, wbad, wold, notWriter >>

\* line 142: fs::rename(tmpPath, target)
Rename ==
  /\ wpc = "rename"
  /\ \/ /\ target' = tmp
        /\ tmp' = NoFile
        /\ wpc' = "done"
     \/ /\ wpc' = "threw"
        /\ UNCHANGED fsVars
  /\ UNCHANGED << wlines, wpos, wbad, wold, notWriter >>

\* write has returned or thrown; the writer may be used again
WriteReturn ==
  /\ wpc \in { "done", "threw" }
  /\ wpc' = "idle"
  /\ UNCHANGED << fsVars, wlines, wpos, wbad, wold, notWriter >>

WriterInit ==
  /\ target \in { NoFile, File(<< LineOf(CarA) >>),
                  File(<< LineOf(CarB), LineOf(CarA) >>) }
  /\ tmp = NoFile
  /\ WriterIdle
  /\ ParserIdle
  /\ RepositoryIdle
  /\ IngestIdle
  /\ CallerIdle
  /\ RaceIdle

WriterNext ==
  \/ WriteCall
  \/ OpenTmp
  \/ WriteLine
  \/ CloseTmp
  \/ RemoveTarget
  \/ Rename
  \/ WriteReturn

SpecWriter == WriterInit /\ [][WriterNext]_vars

(***************************************************************************)
(* Two calls of TransactionalFileWriter::write that run at the same time   *)
(* on one target, from two processes or threads.  Both resolve the same    *)
(* temporary path, target + ".tmp" (line 122).  A path names a file; an    *)
(* open stream stays on the file it was opened on, whatever the path names *)
(* later, and writes at its own position.  The file system refuses nothing *)
(* here: rename throws only when the temporary path names no file.  The    *)
(* lines are all of one length, so a position is a number of lines.        *)
(***************************************************************************)

\* One line's length of zero bytes: what a file holds where a stream wrote
\* beyond its end
Nul == << "NUL" >>

\* The file a path names
FileAt(n, contents) == IF n = 0 THEN NoFile ELSE File(contents[n])

\* A write of line at position pos of a file
WriteAt(content, pos, line) ==
  IF pos < Len(content)
  THEN [content EXCEPT ![pos + 1] = line]
  ELSE content \o [i \in 1..(pos - Len(content)) |-> Nul] \o << line >>

notRace ==
  << parserVars, writerVars, backendVars, repoVars, ghostVars, ingestVars,
     callerVars >>

\* The paths as the rest of the model sees them
Paths ==
  /\ target' = FileAt(names'.target, inodes')
  /\ tmp' = FileAt(names'.tmp, inodes')

\* lines 112-124: the two calls, with different lines
ConcurrentCall ==
  /\ \A w \in Writers : cw[w].pc = "idle"
  /\ inodes = << >>
  /\ \E first, second \in BoundedSeqs(WriterLines, MaxLines) :
       /\ first # second
       /\ first # << >>
       /\ second # << >>
       /\ cw' = [w \in Writers |->
                  [pc |-> "open", lines |-> IF w = 1 THEN first ELSE second,
                   pos |-> 0, fd |-> 0]]
  /\ inodes' = IF target.exists THEN << target.lines >> ELSE << >>
  /\ names' = [target |-> IF target.exists THEN 1 ELSE 0, tmp |-> 0]
  /\ UNCHANGED << fsVars, notRace >>

\* lines 126-129: std::ofstream output(tmpPath, binary | trunc): the file
\* the path names is emptied, or a new one is made
ConcurrentOpenTmp(w) ==
  /\ cw[w].pc = "open"
  /\ IF names.tmp # 0
     THEN /\ inodes' = [inodes EXCEPT ![names.tmp] = << >>]
          /\ names' = names
          /\ cw' = [cw EXCEPT ![w].pc = "write", ![w].fd = names.tmp]
     ELSE /\ inodes' = Append(inodes, << >>)
          /\ names' = [names EXCEPT !.tmp = Len(inodes) + 1]
          /\ cw' = [cw EXCEPT ![w].pc = "write", ![w].fd = Len(inodes) + 1]
  /\ Paths
  /\ UNCHANGED notRace

\* lines 133-135: output << line << '\n', at the stream's position
ConcurrentWriteLine(w) ==
  /\ cw[w].pc = "write"
  /\ cw[w].pos < Len(cw[w].lines)
  /\ inodes' = [inodes EXCEPT ![cw[w].fd] =
                  WriteAt(@, cw[w].pos, cw[w].lines[cw[w].pos + 1])]
  /\ cw' = [cw EXCEPT ![w].pos = @ + 1]
  /\ names' = names
  /\ Paths
  /\ UNCHANGED notRace

\* lines 136-137: output.flush(); output.close()
ConcurrentCloseTmp(w) ==
  /\ cw[w].pc = "write"
  /\ cw[w].pos = Len(cw[w].lines)
  /\ cw' = [cw EXCEPT ![w].pc = "closed", ![w].fd = 0]
  /\ UNCHANGED << fsVars, inodes, names, notRace >>

\* lines 139-141: if (fs::exists(target)) fs::remove(target); removing a
\* path that names nothing is no error
ConcurrentRemoveTarget(w) ==
  /\ cw[w].pc = "closed"
  /\ names' = [names EXCEPT !.target = 0]
  /\ cw' = [cw EXCEPT ![w].pc = "rename"]
  /\ inodes' = inodes
  /\ Paths
  /\ UNCHANGED notRace

\* line 142: fs::rename(tmpPath, target); it throws when tmpPath names
\* no file
ConcurrentRename(w) ==
  /\ cw[w].pc = "rename"
  /\ IF names.tmp # 0
     THEN /\ names' = [target |-> names.tmp, tmp |-> 0]
          /\ cw' = [cw EXCEPT ![w].pc = "done"]
     ELSE /\ names' = names
          /\ cw' = [cw EXCEPT ![w].pc = "threw"]
  /\ inodes' = inodes
  /\ Paths
  /\ UNCHANGED notRace

RaceInit == WriterInit

RaceNext ==
  \/ ConcurrentCall
  \/ \E w \in Writers : ConcurrentOpenTmp(w)
  \/ \E w \in Writers : ConcurrentWriteLine(w)
  \/ \E w \in Writers : ConcurrentCloseTmp(w)
  \/ \E w \in Writers : ConcurrentRemoveTarget(w)
  \/ \E w \in Writers : ConcurrentRename(w)

SpecRace == RaceInit /\ [][RaceNext]_vars

(***************************************************************************)
(* CarFilePipeline and the storage backends                                *)
(***************************************************************************)

\* stream without the test of line 181 and without the catch of line 184:
\* the consumer is called whatever parse gave
DeliveredUnchecked(p) == << p.rec >>

\* lines 180-183: the consumer is handed the record parse returned; an empty
\* line gives none, and what parse throws is caught (lines 184-186)
Delivered(p) == IF p.kind = "record" THEN << p.rec >> ELSE << >>

\* CarFilePipeline::stream on the lines of an existing file: the records
\* handed to the consumer, in order.
RECURSIVE StreamRecords(_)
StreamRecords(lines) ==
  IF lines = << >> THEN << >>
  ELSE Delivered(parse(Head(lines))) \o StreamRecords(Tail(lines))

\* CarFilePipeline::readAll: nothing when the file does not exist
readAll(f) == IF ~f.exists THEN << >> ELSE StreamRecords(f.lines)

\* StorageBackend::loadCars
loadCars(k, m, f) == IF k = "memory" THEN m ELSE readAll(f)

RECURSIVE ValidOnly(_)
ValidOnly(recs) ==
  IF recs = << >> THEN << >>
  ELSE (IF validate(Head(recs)) THEN << Head(recs) >> ELSE << >>)
       \o ValidOnly(Tail(recs))

\* writeAll that leaves out the records serialize throws on and writes the
\* others
writeAllSkipsInvalid(recs) ==
  [ok |-> TRUE,
   lines |-> [i \in 1..Len(ValidOnly(recs)) |-> LineOf(ValidOnly(recs)[i])]]

\* CarFilePipeline::writeAll, up to the call of write: the lines, or
\* ok = FALSE when serialize throws on one of the records
writeAll(recs) ==
  [ok |-> \A i \in 1..Len(recs) : serialize(recs[i]).ok,
   lines |-> [i \in 1..Len(recs) |-> LineOf(recs[i])]]

\* FileStorageBackend::persistCars, given what writeAll made of the records
persistFile(m, f, w, io) ==
  IF ~w.ok THEN [ok |-> FALSE, err |-> "ValidationFailed", mem |-> m, target |-> f]
  ELSE IF io = "fail" THEN [ok |-> FALSE, err |-> "OpenFailed", mem |-> m, target |-> f]
  ELSE [ok |-> TRUE, err |-> "none", mem |-> m, target |-> File(w.lines)]

\* StorageBackend::persistCars(recs).  For the file backend io says whether
\* the temporary file can be opened; when it cannot, write throws before it
\* touches a file.  The outcome: whether it returned normally, the error
\* thrown (serialize's on an invalid record comes first), and the medium.
persistCars(k, m, f, recs, io) ==
  IF k = "memory" THEN [ok |-> TRUE, err |-> "none", mem |-> recs, target |-> f]
  ELSE persistFile(m, f, writeAll(recs), io)

\* The outcomes of opening a file the file system allows.
IO == { "ok", "fail" }

(***************************************************************************)
(* CarRepository, each method as a function of the state it reads          *)
(***************************************************************************)

\* records_[record.id] = record
Put(recs, record) ==
  [k \in DOMAIN recs \cup { record.id } |->
     IF k = record.id THEN record ELSE recs[k]]

\* records_.insert({record.id, record}): keeps an entry that is there
PutIfAbsent(recs, record) ==
  IF record.id \in DOMAIN recs THEN recs ELSE Put(recs, record)

RECURSIVE PutAll(_, _)
PutAll(recs, seq) ==
  IF seq = << >> THEN recs ELSE PutAll(Put(recs, Head(seq)), Tail(seq))

RECURSIVE PutAllIfAbsent(_, _)
PutAllIfAbsent(recs, seq) ==
  IF seq = << >> THEN recs
  ELSE PutAllIfAbsent(PutIfAbsent(recs, Head(seq)), Tail(seq))

\* reload with insert in place of operator[]: of the loaded records with
\* one id the first is kept
reloadFirstWins(d, k, exists, loaded, readable) ==
  IF k = "file" /\ exists /\ ~readable
  THEN [ok |-> FALSE, err |-> "OpenFailed", records |-> EmptyMap, dirty |-> d]
  ELSE [ok |-> TRUE, err |-> "none", records |-> PutAllIfAbsent(EmptyMap, loaded),
        dirty |-> FALSE]

\* CarRepository::reload, given what loadCars returns (loaded) when it
\* returns.  readable: an existing file can be opened; when it cannot,
\* loadCars throws after records_.clear() and before dirty_ = false.
reload(d, k, exists, loaded, readable) ==
  IF k = "file" /\ exists /\ ~readable
  THEN [ok |-> FALSE, err |-> "OpenFailed", records |-> EmptyMap, dirty |-> d]
  ELSE [ok |-> TRUE, err |-> "none", records |-> PutAll(EmptyMap, loaded),
        dirty |-> FALSE]

\* CarRepository::all: one entry per key, sorted by std::sort on the records'
\* id.  Entries with equal ids come in an order std::sort and the hash map's
\* iteration leave open, so all is the set of the results it may give.
all(recs) ==
  LET n == Cardinality(DOMAIN recs)
      orders == { f \in [1..n -> DOMAIN recs] :
                    \A i, j \in 1..n : i # j => f[i] # f[j] }
  IN  { [i \in 1..n |-> recs[f[i]]] : f \in
          { g \in orders :
              \A i \in 1..(n - 1) : ~StrLess(recs[g[i + 1]].id, recs[g[i]].id) } }

\* CarRepository::available: the entries whose status is "Available", sorted
\* by std::sort on the records' id like all
available(recs) ==
  LET keys == { k \in DOMAIN recs : recs[k].status = Available }
      n == Cardinality(keys)
      orders == { f \in [1..n -> keys] :
                    \A i, j \in 1..n : i # j => f[i] # f[j] }
  IN  { [i \in 1..n |-> recs[f[i]]] : f \in
          { g \in orders :
              \A i \in 1..(n - 1) : ~StrLess(recs[g[i + 1]].id, recs[g[i]].id) } }

\* CarRepository::find
find(recs, id) ==
  IF id \in DOMAIN recs THEN [found |-> TRUE, rec |-> recs[id]]
  ELSE [found |-> FALSE, rec |-> NoRecord]

\* CarRepository::upsert
upsert(recs, d, record) == [records |-> Put(recs, record), dirty |-> TRUE]

\* The mutators update is called with: the two of RentalService (rentCar
\* for the user u, returnCar) and one that assigns the record another id.
\* rentCar for the user v has the mutator "rentV".
Mutators == { "rent", "return", "rekey" }

Mutate(mutator, record) ==
  CASE mutator = "rent"   -> [record EXCEPT !.status = RentedByU]
    [] mutator = "return" -> [record EXCEPT !.status = Available]
    [] mutator = "rekey"  -> [record EXCEPT !.id = << "b" >>]
    [] mutator = "rentV"  -> [record EXCEPT !.status = RentedByV]

\* update that marks the repository dirty whether or not it found the id
updateAlwaysDirty(recs, d, id, mutator) ==
  IF id \notin DOMAIN recs THEN [ret |-> FALSE, records |-> recs, dirty |-> TRUE]
  ELSE [ret |-> TRUE,
        records |-> [recs EXCEPT ![id] = Mutate(mutator, recs[id])],
        dirty |-> TRUE]

\* update with records_[id] in place of records_.find(id): an id that is
\* not there gets a default-constructed record, which is mutated
updateCreates(recs, d, id, mutator) ==
  [ret |-> TRUE,
   records |-> [k \in DOMAIN recs \cup { id } |->
                  IF k # id THEN recs[k]
                  ELSE IF id \in DOMAIN recs THEN Mutate(mutator, recs[id])
                  ELSE Mutate(mutator, CarRecord(<< >>, << >>, << >>, Num(0), Available))],
   dirty |-> TRUE]

\* CarRepository::update
update(recs, d, id, mutator) ==
  IF id \notin DOMAIN recs THEN [ret |-> FALSE, records |-> recs, dirty |-> d]
  ELSE [ret |-> TRUE,
        records |-> [recs EXCEPT ![id] = Mutate(mutator, recs[id])],
        dirty |-> TRUE]

\* bulkUpsert with insert in place of operator[]: the first write wins
bulkUpsertFirstWins(recs, d, seq) ==
  [records |-> PutAllIfAbsent(recs, seq), dirty |-> d \/ seq # << >>]

\* bulkUpsert with dirty_ = !records.empty()
bulkUpsertSetsDirty(recs, d, seq) ==
  [records |-> PutAll(recs, seq), dirty |-> seq # << >>]

\* CarRepository::bulkUpsert
bulkUpsert(recs, d, seq) ==
  [records |-> PutAll(recs, seq), dirty |-> d \/ seq # << >>]

\* The state after persistCars without dirty_ = false
flushedKeepsDirty(d, o, snapshot) ==
  [ok |-> o.ok, err |-> o.err, dirty |-> d, mem |-> o.mem, target |-> o.target,
   calls |-> 1, arg |-> snapshot]

\* The state after persistCars with dirty_ = false set before the call
flushedClearsDirty(d, o, snapshot) ==
  [ok |-> o.ok, err |-> o.err, dirty |-> FALSE, mem |-> o.mem, target |-> o.target,
   calls |-> 1, arg |-> snapshot]

\* lines 351-352: the state after persistCars has returned or thrown (o)
flushed(d, o, snapshot) ==
  [ok |-> o.ok, err |-> o.err, dirty |-> IF o.ok THEN FALSE ELSE d, mem |-> o.mem,
   target |-> o.target, calls |-> 1, arg |-> snapshot]

\* CarRepository::flush.  snapshot is the result of all(), io the file
\* system's answer should the backend open a file.
flush(d, k, m, f, snapshot, io) ==
  IF ~d
  THEN [ok |-> TRUE, err |-> "none", dirty |-> d, mem |-> m, target |-> f,
        calls |-> 0, arg |-> << >>]
  ELSE flushed(d, persistCars(k, m, f, snapshot, io), snapshot)

(***************************************************************************)
(* The repository over its backend: any sequence of upsert, update,        *)
(* bulkUpsert, flush and reload                                            *)
(***************************************************************************)

\* Bound: the longest sequence given to bulkUpsert.
MaxBulk == 2

UpsertInputs == { CarA, CarA2, CarB, CarZero }

\* Sequences that repeat an id with different records
BulkInputs == BoundedSeqs({ CarA, CarA2 }, MaxBulk)

\* The ids of the records in use
KeySet == { << "a" >>, << "b" >> }

NotFound == [found |-> FALSE, rec |-> NoRecord]

NoneWritten == [id \in KeySet |-> NotFound]

\* The last record of seq with this id, or else prev.
LastWritten(seq, id, prev) ==
  LET at == { i \in 1..Len(seq) : seq[i].id = id }
  IN  IF at = {} THEN prev
      ELSE [found |-> TRUE, rec |-> seq[CHOOSE i \in at : \A j \in at : j <= i]]

notService == << parserVars, tmp, writerVars, ingestVars, raceVars >>

notRepository == << notService, callerVars >>

\* The state after CarRepository's constructor (lines 277-280), which
\* reloads, for a backend of either kind over a medium that is empty or
\* holds records written earlier.
RepositoryInit ==
  /\ kind \in { "file", "memory" }
  /\ \/ /\ kind = "memory"
        /\ mem \in { << >>, << CarA >> }
        /\ target = NoFile
     \/ /\ kind = "file"
        /\ mem = << >>
        /\ target \in { NoFile, File(<< LineOf(CarA) >>) }
  /\ \E loaded \in { loadCars(kind, mem, target) } :
       /\ records = PutAll(EmptyMap, loaded)
       /\ written = [id \in KeySet |-> LastWritten(loaded, id, NotFound)]
  /\ dirty = FALSE
  /\ op = Op("init", NoInput, TRUE, "none", FALSE, 0, << >>, FALSE)
  /\ pure = TRUE
  /\ mutated = FALSE
  /\ tmp = NoFile
  /\ ParserIdle
  /\ WriterIdle
  /\ IngestIdle
  /\ CallerIdle
  /\ RaceIdle

Upsert ==
  /\ ipc = "idle"
  /\ \E record \in UpsertInputs :
       \E o \in { upsert(records, dirty, record) } :
           /\ records' = o.records
           /\ dirty' = o.dirty
           /\ op' = Op("upsert", Input(<< >>, "none", << record >>), TRUE, "none", dirty,
                       0, << >>, FALSE)
           /\ written' = IF pure
                         THEN [written EXCEPT ![record.id] = [found |-> TRUE, rec |-> record]]
                         ELSE written
  /\ mutated' = TRUE
  /\ UNCHANGED << pure, backendVars, target, notRepository >>

Update ==
  /\ ipc = "idle"
  /\ \E id \in KeySet, mutator \in Mutators :
       \E o \in { update(records, dirty, id, mutator) } :
           /\ records' = o.records
           /\ dirty' = o.dirty
           /\ op' = Op("update", Input(id, mutator, << >>), o.ret, "none", dirty, 0,
                       << >>, FALSE)
           /\ mutated' = (mutated \/ id \in DOMAIN records)
           /\ pure' = (pure /\ id \notin DOMAIN records)
           /\ written' = IF pure /\ id \notin DOMAIN records THEN written
                         ELSE NoneWritten
  /\ UNCHANGED << backendVars, target, notRepository >>

BulkUpsert ==
  /\ ipc = "idle"
  /\ \E seq \in BulkInputs :
       \E o \in { bulkUpsert(records, dirty, seq) } :
           /\ records' = o.records
           /\ dirty' = o.dirty
           /\ written' = IF pure
                         THEN [id \in KeySet |-> LastWritten(seq, id, written[id])]
                         ELSE written
           /\ mutated' = (mutated \/ Len(seq) > 0)
           /\ op' = Op("bulkUpsert", Input(<< >>, "none", seq), TRUE, "none", dirty, 0,
                       << >>, FALSE)
  /\ UNCHANGED << pure, backendVars, target, notRepository >>

Flush ==
  /\ ipc = "idle"
  /\ \E snapshot \in all(records), io \in IO :
       \E o \in { flush(dirty, kind, mem, target, snapshot, io) } :
           /\ dirty' = o.dirty
           /\ mem' = o.mem
           /\ target' = o.target
           /\ op' = Op("flush", NoInput, o.ok, o.err, dirty, o.calls, o.arg,
                       op.name = "flush")
           /\ mutated' = (mutated /\ ~o.ok)
  /\ UNCHANGED << records, kind, written, pure, notRepository >>

Reload ==
  /\ ipc = "idle"
  /\ \E readable \in BOOLEAN :
       \E loaded \in { loadCars(kind, mem, target) } :
       \E o \in { reload(dirty, kind, target.exists, loaded, readable) } :
           /\ records' = o.records
           /\ dirty' = o.dirty
           /\ op' = Op("reload", NoInput, o.ok, o.err, dirty, 0, << >>, FALSE)
           /\ mutated' = (mutated /\ ~o.ok)
           /\ pure' = o.ok
           /\ written' = IF o.ok
                         THEN [id \in KeySet |-> LastWritten(loaded, id, NotFound)]
                         ELSE NoneWritten
  /\ UNCHANGED << backendVars, target, notRepository >>

Next ==
  \/ Upsert
  \/ Update
  \/ BulkUpsert
  \/ Flush
  \/ Reload

Spec == RepositoryInit /\ [][Next]_vars

(***************************************************************************)
(* BatchProcessor::ingest over the repository, one line of the source file *)
(* at a time.  The source is a file of its own, read as it was when ingest *)
(* opened it.                                                              *)
(***************************************************************************)

\* Bounds: the most lines of a source file, and the largest chunk size.
MaxSource == 3
MaxChunk == 3

\* The lines of source files: two records, and lines parse rejects for too
\* few fields, for a price that is no number, and for a condition the
\* validator rejects.
FewFieldsLine == << "x" >>
BadPriceLine == Join(<< << "a" >>, << "m" >>, good, << "x" >>, << "a" >> >>)
BadConditionLine == Join(<< << "a" >>, << "m" >>, << "m" >>, << "2", "5" >>, << "a" >> >>)

SourceLines ==
  { LineOf(CarA), LineOf(CarB), FewFieldsLine, BadPriceLine, BadConditionLine }

SourceInputs ==
  { NoFile } \cup { File(lines) : lines \in BoundedSeqs(SourceLines, MaxSource) }

\* line 462 with > in place of >=
ChunkOverfull(buf, chunkSize) == Len(buf) > chunkSize

\* line 462: buffer.size() >= chunkSize
ChunkFull(buf, chunkSize) == Len(buf) >= chunkSize

IngestOp == Op("ingest", NoInput, TRUE, "none", FALSE, 0, << >>, FALSE)

notIngest == << parserVars, tmp, writerVars, kind, callerVars, raceVars >>

Entry(pc, err, touched, lines) ==
  [pc |-> pc, err |-> err, touched |-> touched, src |-> lines]

\* ingest without the check of lines 449-451
ingestEntryUnchecked(file, chunkSize, readable) ==
  IF ~file.exists THEN Entry("tail", "none", TRUE, << >>)
  ELSE IF ~readable THEN Entry("threw", "OpenFailed", TRUE, << >>)
  ELSE Entry("stream", "none", TRUE, file.lines)

\* ingest over a stream that takes a missing source for an error
ingestEntryMissingThrows(file, chunkSize, readable) ==
  IF chunkSize = 0 THEN Entry("threw", "InvalidArgument", FALSE, << >>)
  ELSE IF ~file.exists \/ ~readable THEN Entry("threw", "OpenFailed", TRUE, << >>)
  ELSE Entry("stream", "none", TRUE, file.lines)

\* lines 448-458 and 162-175: the chunk size is checked; then stream looks
\* for the source, where a missing file ends the stream at once, and opens it
ingestEntry(file, chunkSize, readable) ==
  IF chunkSize = 0 THEN Entry("threw", "InvalidArgument", FALSE, << >>)
  ELSE IF ~file.exists THEN Entry("tail", "none", TRUE, << >>)
  ELSE IF ~readable THEN Entry("threw", "OpenFailed", TRUE, << >>)
  ELSE Entry("stream", "none", TRUE, file.lines)

IngestCall ==
  /\ ipc = "idle"
  /\ \E file \in SourceInputs, chunkSize \in 0..MaxChunk, readable \in BOOLEAN :
       \E e \in { ingestEntry(file, chunkSize, readable) } :
         /\ source' = file
         /\ chunk' = chunkSize
         /\ ipc' = e.pc
         /\ src' = e.src
         /\ ilog' = Log(e.err, e.touched, << >>)
  /\ buffer' = << >>
  /\ metrics' = NoMetrics
  /\ ifail' = FALSE
  /\ op' = IngestOp
  /\ pure' = FALSE
  /\ written' = NoneWritten
  /\ UNCHANGED << mutated, mem, target, repoVars, notIngest >>

\* lines 178-187: a line that is empty or that parse throws on
StreamSkip ==
  /\ ipc = "stream"
  /\ src # << >>
  /\ Delivered(parse(Head(src))) = << >>
  /\ src' = Tail(src)
  /\ UNCHANGED << ipc, source, chunk, buffer, metrics, ifail, ilog, ghostVars,
                  mem, target, repoVars, notIngest >>

\* lines 460-462: the record is buffered; the chunk is not full yet
StreamBuffer ==
  /\ ipc = "stream"
  /\ src # << >>
  /\ \E p \in { Delivered(parse(Head(src))) } :
       /\ p # << >>
       /\ ~ChunkFull(buffer \o p, chunk)
       /\ buffer' = buffer \o p
       /\ ilog' = [ilog EXCEPT !.delivered = @ \o p]
  /\ metrics' = [metrics EXCEPT !.processedRecords = @ + 1]
  /\ src' = Tail(src)
  /\ UNCHANGED << ipc, source, chunk, ifail, ghostVars, mem, target, repoVars,
                  notIngest >>

\* lines 460-467: the record fills the chunk, which is committed.  When
\* flush throws, the exception leaves the callback before buffer.clear() and
\* is caught by stream's catch (lines 184-186), and the stream goes on.
StreamCommit ==
  /\ ipc = "stream"
  /\ src # << >>
  /\ \E p \in { Delivered(parse(Head(src))) } :
       /\ p # << >>
       /\ ChunkFull(buffer \o p, chunk)
       /\ ilog' = [ilog EXCEPT !.delivered = @ \o p]
       /\ \E b \in { bulkUpsert(records, dirty, buffer \o p) } :
          \E snapshot \in all(b.records), io \in IO :
          \E o \in { flush(b.dirty, kind, mem, target, snapshot, io) } :
            /\ records' = b.records
            /\ dirty' = o.dirty
            /\ mem' = o.mem
            /\ target' = o.target
            /\ buffer' = IF o.ok THEN << >> ELSE buffer \o p
            /\ metrics' = [processedRecords |-> metrics.processedRecords + 1,
                           batches |-> metrics.batches + (IF o.ok THEN 1 ELSE 0)]
            /\ ifail' = (ifail \/ ~o.ok)
            /\ mutated' = ~o.ok
  /\ src' = Tail(src)
  /\ UNCHANGED << ipc, source, chunk, op, written, pure, notIngest >>

\* line 178: std::getline finds no more line; stream returns
StreamEnd ==
  /\ ipc = "stream"
  /\ src = << >>
  /\ ipc' = "tail"
  /\ UNCHANGED << source, src, chunk, buffer, metrics, ifail, ilog, ghostVars,
                  mem, target, repoVars, notIngest >>

\* lines 470-475: the remainder is committed; what flush throws here leaves
\* ingest
TailCommit ==
  /\ ipc = "tail"
  /\ buffer # << >>
  /\ \E b \in { bulkUpsert(records, dirty, buffer) } :
     \E snapshot \in all(b.records), io \in IO :
     \E o \in { flush(b.dirty, kind, mem, target, snapshot, io) } :
       /\ records' = b.records
       /\ dirty' = o.dirty
       /\ mem' = o.mem
       /\ target' = o.target
       /\ buffer' = IF o.ok THEN << >> ELSE buffer
       /\ metrics' = [metrics EXCEPT !.batches = @ + (IF o.ok THEN 1 ELSE 0)]
       /\ ifail' = (ifail \/ ~o.ok)
       /\ mutated' = ~o.ok
       /\ ipc' = IF o.ok THEN "returned" ELSE "threw"
       /\ ilog' = [ilog EXCEPT !.err = IF o.ok THEN @ ELSE "PersistFailed"]
  /\ UNCHANGED << source, src, chunk, op, written, pure, notIngest >>

\* lines 470 and 477-479: nothing is left in the buffer
TailEmpty ==
  /\ ipc = "tail"
  /\ buffer = << >>
  /\ ipc' = "returned"
  /\ UNCHANGED << source, src, chunk, buffer, metrics, ifail, ilog, ghostVars,
                  mem, target, repoVars, notIngest >>

\* ingest has returned its metrics or thrown; its locals are gone
IngestReturn ==
  /\ ipc \in { "returned", "threw" }
  /\ ipc' = "idle"
  /\ source' = NoFile
  /\ src' = << >>
  /\ chunk' = 0
  /\ buffer' = << >>
  /\ metrics' = NoMetrics
  /\ ifail' = FALSE
  /\ ilog' = NoLog
  /\ UNCHANGED << ghostVars, mem, target, repoVars, notIngest >>

IngestNext ==
  \/ IngestCall
  \/ StreamSkip
  \/ StreamBuffer
  \/ StreamCommit
  \/ StreamEnd
  \/ TailCommit
  \/ TailEmpty
  \/ IngestReturn

SpecIngest == RepositoryInit /\ [][IngestNext]_vars

\* ingest over a file backend whose file was not written by serialize: its
\* one line gives the price with seven digits, which parse accepts
PreciseLine ==
  Join(<< << "b" >>, << "n" >>, good, << "1", "2", "3", "4", "5", "6", "7" >>,
          Available >>)

PreciseInit ==
  /\ kind = "file"
  /\ mem = << >>
  /\ target = File(<< PreciseLine >>)
  /\ \E loaded \in { loadCars(kind, mem, target) } :
       /\ records = PutAll(EmptyMap, loaded)
       /\ written = [id \in KeySet |-> LastWritten(loaded, id, NotFound)]
  /\ dirty = FALSE
  /\ op = Op("init", NoInput, TRUE, "none", FALSE, 0, << >>, FALSE)
  /\ pure = TRUE
  /\ mutated = FALSE
  /\ tmp = NoFile
  /\ ParserIdle
  /\ WriterIdle
  /\ IngestIdle
  /\ CallerIdle
  /\ RaceIdle

SpecIngestPrecise == PreciseInit /\ [][IngestNext]_vars

(***************************************************************************)
(* RentalService over the repository: any sequence of addCar, rentCar,     *)
(* returnCar, ingest and save.  Each method is the part before its flush,  *)
(* as a function of the state it reads, followed by the flush.             *)
(***************************************************************************)

\* What a method has done before its flush: the error it threw (or "none"),
\* what it is to return, the cache, whether it goes on to flush, and the
\* caller's amountDue.
Before(err, ret, recs, d, flushes, due) ==
  [err |-> err, ret |-> ret, records |-> recs, dirty |-> d, flushes |-> flushes,
   amountDue |-> due]

\* addCar without the test of line 375: an existing id is overwritten
addCarOverwrites(recs, d, record, due) ==
  Before("none", TRUE, upsert(recs, d, record).records, upsert(recs, d, record).dirty,
         TRUE, due)

\* RentalService::addCar, lines 375-378
addCar(recs, d, record, due) ==
  IF find(recs, record.id).found
  THEN Before("AlreadyExists", FALSE, recs, d, FALSE, due)
  ELSE Before("none", TRUE, upsert(recs, d, record).records,
              upsert(recs, d, record).dirty, TRUE, due)

\* The mutator of rentCar for a user (line 401)
RentMutator(userId) == IF userId = << "u" >> THEN "rent" ELSE "rentV"

\* lines 399-402: amountDue is assigned, then update && flush()
rentCarUpdated(u, price) ==
  Before("none", u.ret, u.records, u.dirty, u.ret, price)

\* rentCar that quotes nothing: amountDue is left as the caller passed it
rentCarNoQuote(recs, d, carId, userId, due) ==
  IF ~find(recs, carId).found THEN Before("none", FALSE, recs, d, FALSE, due)
  ELSE IF find(recs, carId).rec.status # Available
    THEN Before("none", FALSE, recs, d, FALSE, due)
  ELSE rentCarUpdated(update(recs, d, carId, RentMutator(userId)), due)

\* rentCar without the test of line 396: a car that is not available is
\* rented again
rentCarIgnoresStatus(recs, d, carId, userId, due) ==
  IF ~find(recs, carId).found THEN Before("none", FALSE, recs, d, FALSE, due)
  ELSE rentCarUpdated(update(recs, d, carId, RentMutator(userId)),
                      find(recs, carId).rec.pricePerDay)

\* RentalService::rentCar, lines 391-402
rentCar(recs, d, carId, userId, due) ==
  IF ~find(recs, carId).found THEN Before("none", FALSE, recs, d, FALSE, due)
  ELSE IF find(recs, carId).rec.status # Available
    THEN Before("none", FALSE, recs, d, FALSE, due)
  ELSE rentCarUpdated(update(recs, d, carId, RentMutator(userId)),
                      find(recs, carId).rec.pricePerDay)

returnCarUpdated(u, due) == Before("none", u.ret, u.records, u.dirty, u.ret, due)

\* RentalService::returnCar, lines 406-411
returnCar(recs, d, carId, due) ==
  returnCarUpdated(update(recs, d, carId, "return"), due)

\* RentalService::ingest, line 416
serviceIngest(recs, d, seq, due) ==
  Before("none", TRUE, bulkUpsert(recs, d, seq).records, bulkUpsert(recs, d, seq).dirty,
         TRUE, due)

\* RentalService::save
save(recs, d, due) == Before("none", TRUE, recs, d, TRUE, due)

\* repository_.flush() at the end of a method (lines 379, 402, 412, 417, 425,
\* 429-432), when the method gets there
serviceFlush(b, k, m, f, snapshot, io) ==
  IF ~b.flushes
  THEN [ok |-> b.err = "none", err |-> b.err, dirty |-> b.dirty, mem |-> m,
        target |-> f, calls |-> 0, arg |-> << >>]
  ELSE flush(b.dirty, k, m, f, snapshot, io)

\* A record the validator accepts, with an empty status
CarNoStatus == CarRecord(<< "b" >>, << "n" >>, good, Num(40), << >>)

AddInputs == { CarA, CarB, CarZero, CarNoStatus }

Users == { << "u" >>, << "v" >> }

ServiceBulk == { << >>, << CarA2 >>, << CarB >> }

\* The rentals the caller knows of, after a method has run
Rentals(name, input, ret) ==
  IF name = "rentCar" /\ ret
  THEN [c \in DOMAIN renter \cup { input.id } |->
          IF c = input.id
          THEN (IF input.mutator = "rent" THEN << "u" >> ELSE << "v" >>)
          ELSE renter[c]]
  ELSE IF name = "returnCar"
  THEN [c \in DOMAIN renter \ { input.id } |-> renter[c]]
  ELSE IF name = "serviceIngest"
  THEN [c \in DOMAIN renter \ { input.seq[i].id : i \in 1..Len(input.seq) } |->
          renter[c]]
  ELSE renter

\* A method of RentalService has run: b is what it did before its flush, o
\* what the flush did; mutates: it has called upsert, an update that found
\* its id, or bulkUpsert with records.
Served(name, input, mutates, b, o) ==
  /\ records' = b.records
  /\ dirty' = o.dirty
  /\ mem' = o.mem
  /\ target' = o.target
  /\ amountDue' = b.amountDue
  /\ renter' = Rentals(name, input, o.ok /\ b.ret)
  /\ op' = Op(name, input, o.ok /\ b.ret, o.err, dirty, o.calls, o.arg, FALSE)
  /\ mutated' = IF b.flushes THEN (mutated \/ mutates) /\ ~o.ok ELSE mutated
  /\ pure' = FALSE
  /\ written' = NoneWritten
  /\ UNCHANGED << kind, notService >>

AddCar ==
  \E record \in AddInputs :
    \E b \in { addCar(records, dirty, record, amountDue) } :
      \E snapshot \in all(b.records), io \in IO :
        \E o \in { serviceFlush(b, kind, mem, target, snapshot, io) } :
          Served("addCar", Input(<< >>, "none", << record >>), b.flushes, b, o)

RentCar ==
  \E carId \in KeySet, userId \in Users :
    \E b \in { rentCar(records, dirty, carId, userId, amountDue) } :
      \E snapshot \in all(b.records), io \in IO :
        \E o \in { serviceFlush(b, kind, mem, target, snapshot, io) } :
          Served("rentCar", Input(carId, RentMutator(userId), << >>), b.flushes,
                 b, o)

ReturnCar ==
  \E carId \in KeySet :
    \E b \in { returnCar(records, dirty, carId, amountDue) } :
      \E snapshot \in all(b.records), io \in IO :
        \E o \in { serviceFlush(b, kind, mem, target, snapshot, io) } :
          Served("returnCar", Input(carId, "return", << >>), b.flushes, b, o)

ServiceIngest ==
  \E seq \in ServiceBulk :
    \E b \in { serviceIngest(records, dirty, seq, amountDue) } :
      \E snapshot \in all(b.records), io \in IO :
        \E o \in { serviceFlush(b, kind, mem, target, snapshot, io) } :
          Served("serviceIngest", Input(<< >>, "none", seq), seq # << >>, b, o)

Save ==
  \E b \in { save(records, dirty, amountDue) } :
    \E snapshot \in all(b.records), io \in IO :
      \E o \in { serviceFlush(b, kind, mem, target, snapshot, io) } :
        Served("save", NoInput, FALSE, b, o)

RentalNext ==
  \/ AddCar
  \/ RentCar
  \/ ReturnCar
  \/ ServiceIngest
  \/ Save

SpecRental == RepositoryInit /\ [][RentalNext]_vars

(***************************************************************************)
(* Properties                                                              *)
(***************************************************************************)

\* CarRepository::pendingChanges
pendingChanges == dirty

HasComma(s) == \E i \in 1..Len(s) : s[i] = ","

NoComma(record) ==
  /\ ~HasComma(record.id)
  /\ ~HasComma(record.model)
  /\ ~HasComma(record.condition)
  /\ ~HasComma(record.status)

\* C1: while write runs with every line put to the temporary file without an
\* output error, a target file that existed before the call holds its
\* complete previous content or the complete new content: it is never
\* missing, empty or partial.
C1_TargetOldOrNew ==
  (wpc # "idle" /\ wold.exists /\ ~wbad) => target \in { wold, File(wlines) }

\* C2: when an output operation on the temporary file has failed, write does
\* not replace the target: once write has completed, the target is what it
\* was before the call.
C2_FailedOutputKeepsTarget ==
  (wpc = "done" /\ wbad) => target = wold

\* C3: for every record the validator accepts whose string fields hold no
\* comma (its status may be empty), parse(serialize(r)) returns a record
\* equal to r.
C3_RoundTrip ==
  (ppc = "parsed" /\ precord # NoRecord /\ validate(precord) /\ NoComma(precord))
    => presult = Outcome("record", precord)

\* C4: every record held in the backend's durable snapshot satisfies the
\* validator, on a backend of either kind, after any sequence of repository
\* operations.
C4_PersistedValid ==
  /\ \A i \in 1..Len(mem) : validate(mem[i])
  /\ target.exists =>
       \A i \in 1..Len(target.lines) :
         /\ parse(target.lines[i]).kind = "record"
         /\ validate(parse(target.lines[i]).rec)

C6_LastWriteWins ==
  pure => \A id \in KeySet : find(records, id) = written[id]

\* A bulkUpsert has replaced the record CarA loaded for id a by CarA2, and id
\* b was never written or loaded.
C6_Witness ==
  /\ pure
  /\ op.name = "bulkUpsert"
  /\ loadCars(kind, mem, target) = << CarA >>
  /\ find(records, << "a" >>) = [found |-> TRUE, rec |-> CarA2]
  /\ ~find(records, << "b" >>).found

\* C7 as stated: a flush that directly follows a flush makes no backend call
\* and changes neither the cache, the dirty flag nor the backend snapshot.
C7_SecondFlushNoCall ==
  [][ (op.name = "flush" /\ op'.name = "flush")
        => (op'.calls = 0 /\ UNCHANGED << records, dirty, mem, target >>) ]_vars

\* C7 as amended: a flush that directly follows a flush that returned
\* normally makes no backend call and changes neither the cache, the dirty
\* flag nor the backend snapshot.
C7_SecondFlushAfterSuccess ==
  [][ (op.name = "flush" /\ op.ok /\ op'.name = "flush")
        => (op'.calls = 0 /\ UNCHANGED << records, dirty, mem, target >>) ]_vars

\* A flush of a non-empty repository that directly followed a flush has
\* returned without a backend call.
C7_Witness ==
  /\ op.name = "flush"
  /\ op.again
  /\ op.ok
  /\ op.calls = 0
  /\ DOMAIN records # {}
  /\ loadCars(kind, mem, target) # << >>

\* C8: a flush of a dirty repository that returns normally has called
\* persistCars exactly once with the full current cache, one entry per id in
\* ascending id order, has left that in the backend and has cleared dirty.
C8_FlushPersistsCache ==
  (op.name = "flush" /\ op.ok /\ op.wasDirty) =>
    /\ op.calls = 1
    /\ ~pendingChanges
    /\ Len(op.arg) = Cardinality(DOMAIN records)
    /\ \A id \in DOMAIN records : \E i \in 1..Len(op.arg) : op.arg[i] = records[id]
    /\ \A i, j \in 1..Len(op.arg) : i < j => StrLess(op.arg[i].id, op.arg[j].id)
    /\ kind = "memory" => mem = op.arg
    /\ kind = "file" => target = File([i \in 1..Len(op.arg) |-> LineOf(op.arg[i])])

\* C9: pendingChanges() is true exactly when an upsert, an update that found
\* its id or a bulkUpsert of a non-empty sequence has run since the last
\* flush or reload that returned normally (or since construction).
C9_DirtyIffMutated == pendingChanges = mutated

\* A flush of a dirty repository has returned normally and nothing is
\* pending.
C9_Witness ==
  /\ op.name = "flush"
  /\ op.ok
  /\ op.wasDirty
  /\ ~pendingChanges

\* The number of lines of a source file that parse to a record
ParsedCount(file) ==
  IF ~file.exists THEN 0
  ELSE Cardinality({ i \in 1..Len(file.lines) : parse(file.lines[i]).kind = "record" })

CeilDiv(n, c) == (n + c - 1) \div c

\* C10: with no backend failure, ingest of a source file that yields N
\* records with chunk size C > 0 returns processedRecords = N and
\* batches = ceil(N / C), which is 0 when N = 0.
C10_ChunkAccounting ==
  (ipc = "returned" /\ ~ifail) =>
    /\ metrics.processedRecords = ParsedCount(source)
    /\ metrics.batches = CeilDiv(ParsedCount(source), chunk)

\* ingest has returned from a source of 3 records with chunk size 2, in 2
\* batches.
C10_Witness ==
  /\ ipc = "returned"
  /\ ~ifail
  /\ ParsedCount(source) = 3
  /\ chunk = 2
  /\ metrics.batches = 2

\* The positions of the lines of a source file that parse accepts
ValidAt(file) ==
  { i \in 1..Len(file.lines) : parse(file.lines[i]).kind = "record" }

\* How many positions of S are at or before i
Rank(S, i) == Cardinality({ j \in S : j <= i })

C12_PersistFailurePropagates == ifail => ipc = "threw"

\* C13: while ingest runs with chunk size C > 0, the buffer holds at most C
\* records, also after a flush has failed during a chunk commit.
C13_BufferBounded ==
  ipc \in { "stream", "tail" } => Len(buffer) <= chunk

\* C14: a call of ingest with chunkSize = 0 throws InvalidArgument without
\* consulting the file system for the source, and neither that call nor its
\* return changes the cache, the dirty flag or the backend.
C14_ZeroChunkRejected ==
  [][ /\ (ipc = "idle" /\ ipc' # "idle" /\ chunk' = 0)
        => /\ ipc' = "threw"
           /\ ilog'.err = "InvalidArgument"
           /\ ~ilog'.touched
           /\ ilog'.delivered = << >>
           /\ UNCHANGED << records, dirty, mem, target >>
      /\ (ipc = "threw" /\ ipc' = "idle")
        => UNCHANGED << records, dirty, mem, target >> ]_vars

\* ingest of an existing source file with lines into a repository that holds
\* a record has thrown InvalidArgument for chunkSize = 0.
C14_Witness ==
  /\ ipc = "threw"
  /\ chunk = 0
  /\ ilog.err = "InvalidArgument"
  /\ source.exists
  /\ source.lines # << >>
  /\ DOMAIN records # {}

\* What reload leaves of a snapshot: the ids in it, each with the last entry
\* of that id.
ReloadedFrom(snap) ==
  /\ DOMAIN records = { snap[i].id : i \in 1..Len(snap) }
  /\ \A id \in DOMAIN records :
       \E i \in 1..Len(snap) :
         /\ snap[i].id = id
         /\ records[id] = snap[i]
         /\ \A j \in (i + 1)..Len(snap) : snap[j].id # id

OnlyAvailable(s) == SelectSeq(s, LAMBDA r : r.status = Available)

\* C16: all() returns each cached record exactly once in strictly ascending
\* id order, and available() returns the subsequence of all() whose status
\* is "Available".
C16_AllSortedOnce ==
  /\ \A s \in all(records) :
       /\ Len(s) = Cardinality(DOMAIN records)
       /\ \A k \in DOMAIN records : \E i \in 1..Len(s) : s[i] = records[k]
       /\ \A i, j \in 1..Len(s) : i < j => StrLess(s[i].id, s[j].id)
  /\ available(records) = { OnlyAvailable(s) : s \in all(records) }

\* C17: update(id, mutator) returns true exactly when id is in the cache;
\* when it returns false the cache, the dirty flag and the backend are
\* unchanged; when it returns true the record under id is the mutated one,
\* every other entry and the backend are unchanged and dirty is true.
C17_UpdateFrame ==
  [][ op'.name = "update" =>
        /\ op'.ok = (op'.input.id \in DOMAIN records)
        /\ ~op'.ok => UNCHANGED << records, dirty, mem, target >>
        /\ op'.ok =>
             /\ DOMAIN records' = DOMAIN records
             /\ \A k \in DOMAIN records \ { op'.input.id } : records'[k] = records[k]
             /\ records'[op'.input.id]
                  = Mutate(op'.input.mutator, records[op'.input.id])
             /\ dirty'
             /\ UNCHANGED << mem, target >> ]_vars

\* update("a", rent) has returned true on a cache that also holds CarB.
C17_Witness ==
  /\ op.name = "update"
  /\ op.ok
  /\ op.input = Input(<< "a" >>, "rent", << >>)
  /\ << "a" >> \in DOMAIN records
  /\ records[<< "a" >>].status = RentedByU
  /\ find(records, << "b" >>) = [found |-> TRUE, rec |-> CarB]
  /\ pendingChanges

RECURSIVE UpsertEach(_, _)
UpsertEach(recs, seq) ==
  IF seq = << >> THEN recs
  ELSE UpsertEach(upsert(recs, FALSE, Head(seq)).records, Tail(seq))

\* C18: bulkUpsert of a non-empty sequence sets dirty and leaves the cache as
\* upsert of each element in order would; bulkUpsert of an empty sequence
\* leaves the cache and the dirty flag as they were.
C18_BulkUpsertIsUpsertEach ==
  [][ op'.name = "bulkUpsert" =>
        IF op'.input.seq = << >>
        THEN UNCHANGED << records, dirty >>
        ELSE dirty' /\ records' = UpsertEach(records, op'.input.seq) ]_vars

\* bulkUpsert of CarA then CarA2 has run on a clean repository that holds
\* CarB.
C18_Witness ==
  /\ op.name = "bulkUpsert"
  /\ op.input.seq = << CarA, CarA2 >>
  /\ ~op.wasDirty
  /\ pendingChanges
  /\ find(records, << "a" >>) = [found |-> TRUE, rec |-> CarA2]
  /\ find(records, << "b" >>) = [found |-> TRUE, rec |-> CarB]

\* The comma-separated fields of a line: one more than it has commas, the
\* last of them empty when the line ends with a comma.
Commas(s) == { i \in 1..Len(s) : s[i] = "," }

FieldCount(s) == Cardinality(Commas(s)) + 1

\* The position of the k-th comma of s; 0 for k = 0 and Len(s) + 1 past the
\* last one.
CommaAt(s, k) ==
  IF k = 0 THEN 0
  ELSE IF k > Cardinality(Commas(s)) THEN Len(s) + 1
  ELSE CHOOSE i \in Commas(s) : Cardinality({ j \in Commas(s) : j <= i }) = k

Field(s, k) == SubSeq(s, CommaAt(s, k - 1) + 1, CommaAt(s, k) - 1)

\* The records the two layouts map a line to
FiveFieldRecord(s) ==
  CarRecord(Field(s, 1), Field(s, 2), Field(s, 3), stod(Field(s, 4)).val, Field(s, 5))

FourFieldRecord(s) ==
  CarRecord(Field(s, 1), Field(s, 1), Field(s, 2), stod(Field(s, 3)).val, Field(s, 4))

\* C19: a line of exactly 5 comma-separated fields whose fields make a valid
\* record parses to id, model, condition, price, status in that order; a
\* line of exactly 4 fields parses to model, condition, price, status with
\* the first field also as the id.
C19_PositionalFields ==
  ppc = "parsed" =>
    /\ (FieldCount(pline) = 5 /\ stod(Field(pline, 4)).ok /\ validate(FiveFieldRecord(pline)))
         => presult = Outcome("record", FiveFieldRecord(pline))
    /\ (FieldCount(pline) = 4 /\ stod(Field(pline, 3)).ok /\ validate(FourFieldRecord(pline)))
         => presult = Outcome("record", FourFieldRecord(pline))

\* C20: a line of more than 5 comma-separated fields parses as its first
\* five fields id, model, condition, price, status do, whatever follows: to
\* their record, or to the error their price or their validation gives; it
\* is not rejected as malformed.
C20_ExtraFieldsIgnored ==
  (ppc = "parsed" /\ FieldCount(pline) > 5) =>
    presult =
      IF ~stod(Field(pline, 4)).ok THEN Outcome("InvalidNumber", NoRecord)
      ELSE IF ~validate(FiveFieldRecord(pline)) THEN Outcome("ValidationFailed", NoRecord)
      ELSE Outcome("record", FiveFieldRecord(pline))

\* The 6-field line car-001,Horizon,excellent,2500,Available,None has been
\* parsed to the record of its first five fields.
C20_Witness ==
  /\ ppc = "parsed"
  /\ pline = ScenarioLongLine
  /\ presult = parse(ScenarioLine)
  /\ presult.kind = "record"
  /\ presult.rec.id = << "c", "a", "r", "-", "0", "0", "1" >>
  /\ presult.rec.status = Available

\* C21: a non-empty line of fewer than 4 comma-separated fields fails parse
\* with MalformedRecord whatever its fields hold: also when its third field
\* is no number (no InvalidNumber) and when its fields would make an
\* invalid record (no ValidationFailed).
C21_FewFieldsMalformed ==
  (ppc = "parsed" /\ pline # << >> /\ FieldCount(pline) < 4)
    => presult = Outcome("MalformedRecord", NoRecord)

\* The line a,good,2x of 3 fields, the third no number, has been parsed and
\* has failed with MalformedRecord.
C21_Witness ==
  /\ ppc = "parsed"
  /\ pline = Join(<< << "a" >>, good, << "2", "x" >> >>)
  /\ FieldCount(pline) = 3
  /\ presult.kind = "MalformedRecord"

\* A string that is a decimal number from its first to its last character:
\* an optional sign, digits with at most one point, at least one digit.
DecimalText(s) ==
  LET t == IF s # << >> /\ s[1] \in { "-", "+" } THEN Tail(s) ELSE s
  IN  /\ \E i \in 1..Len(t) : IsDigit(t[i])
      /\ \A i \in 1..Len(t) : IsDigit(t[i]) \/ t[i] = "."
      /\ Cardinality({ i \in 1..Len(t) : t[i] = "." }) <= 1

\* The record of a line id,model,condition,price that carries no status
StatuslessRecord(s) ==
  CarRecord(Field(s, 1), Field(s, 2), Field(s, 3), stod(Field(s, 4)).val, Available)

\* C22: a line id,model,condition,price without a status field, as it is or
\* ending with a comma after the price, whose fields make a valid record
\* parses to that record with status "Available".
C22_MissingStatusDefaults ==
  ( /\ ppc = "parsed"
    /\ FieldCount(pline) = 4 \/ (FieldCount(pline) = 5 /\ Field(pline, 5) = << >>)
    /\ DecimalText(Field(pline, 4))
    /\ validate(StatuslessRecord(pline)) )
  => presult = Outcome("record", StatuslessRecord(pline))

\* C23: a line that parse splits into at least 4 fields fails with
\* InvalidNumber whenever the field parse reads the price from is not a
\* decimal number from its first to its last character, text that only
\* starts with digits included, whatever the other fields hold.
C23_NonNumericPriceRejected ==
  ( /\ ppc = "parsed"
    /\ pline # << >>
    /\ Len(Tokens(pline)) >= 4
    /\ ~DecimalText(PriceToken(Tokens(pline))) )
  => presult = Outcome("InvalidNumber", NoRecord)

\* C24: validate returns true exactly for the records with a non-empty id,
\* a non-empty model, a condition among excellent, good, fair, minordamages
\* and majordamages and a finite price greater than 0, whatever the status;
\* and the call (made by serialize) changes neither the record nor anything
\* else.
C24_ValidateExactly ==
  [][ ppc = "record" =>
        /\ (ppc' = "line") <=>
              /\ precord.id # << >>
              /\ precord.model # << >>
              /\ precord.condition \in
                   { << "e", "x", "c", "e", "l", "l", "e", "n", "t" >>,
                     << "g", "o", "o", "d" >>, << "f", "a", "i", "r" >>,
                     << "m", "i", "n", "o", "r", "d", "a", "m", "a", "g", "e", "s" >>,
                     << "m", "a", "j", "o", "r", "d", "a", "m", "a", "g", "e", "s" >> }
              /\ precord.pricePerDay.cls = "fin"
              /\ precord.pricePerDay.m > 0
        /\ ppc' \in { "line", "threw" }
        /\ UNCHANGED << precord, presult, notParser >> ]_vars

\* serialize has accepted a record whose status is empty and whose condition
\* is majordamages.
C24_Witness ==
  /\ ppc = "line"
  /\ precord # NoRecord
  /\ precord.status = << >>
  /\ precord.condition = majordamages
  /\ pline # << >>

\* C25: a record with a non-empty id and model, a positive finite price and
\* the condition "minor-damage" or "major-damage" is accepted by validate,
\* serialize returns its line, and the line parses to a record.
C25_HyphenConditionsAccepted ==
  ( /\ precord # NoRecord
    /\ ppc # "record"
    /\ precord.id # << >>
    /\ precord.model # << >>
    /\ isfinite(precord.pricePerDay)
    /\ Positive(precord.pricePerDay)
    /\ precord.condition \in { minorDamage, majorDamage } )
  => /\ validate(precord)
     /\ ppc # "threw"
     /\ ppc = "parsed" => presult.kind = "record"

\* C27: when the file does not exist, the constructor's reload (readAll)
\* gives an empty cache without an error; and an ingest with a chunk size
\* above 0 of a source that does not exist hands the consumer no record,
\* raises no error and returns processedRecords = 0 and batches = 0, and
\* neither the call nor its return changes the cache, the dirty flag or the
\* backend (no bulkUpsert, no flush).
C27_MissingSourceIsEmpty ==
  /\ []( (op.name = "init" /\ kind = "file" /\ ~target.exists)
            => (op.ok /\ records = EmptyMap /\ ~pendingChanges) )
  /\ [][ /\ (ipc = "idle" /\ ipc' # "idle" /\ chunk' > 0 /\ ~source'.exists)
            => /\ ipc' = "tail"
               /\ ilog'.err = "none"
               /\ buffer' = << >>
               /\ UNCHANGED << records, dirty, mem, target >>
         /\ (ipc # "idle" /\ chunk > 0 /\ ~source.exists)
            => /\ ipc' \in { "returned", "idle" }
               /\ (ipc' = "returned" =>
                    /\ metrics' = [processedRecords |-> 0, batches |-> 0]
                    /\ ilog'.delivered = << >>
                    /\ ilog'.err = "none")
               /\ UNCHANGED << records, dirty, mem, target >> ]_vars

\* ingest with chunk size 2 of a source that does not exist has returned
\* zero metrics to a repository that holds a record.
C27_Witness ==
  /\ ipc = "returned"
  /\ ~source.exists
  /\ chunk = 2
  /\ metrics = NoMetrics
  /\ ilog = Log("none", TRUE, << >>)
  /\ DOMAIN records # {}

\* C28: when the temporary file cannot be opened, write throws at once and
\* the target is what it was before the call (the same content, or still
\* absent); the temporary file is not touched either, and after the throw
\* write does nothing more (no remove, no rename).
C28_OpenFailureKeepsTarget ==
  [][ /\ (wpc = "open" /\ wpc' # "write")
        => (wpc' = "threw" /\ target' = wold /\ UNCHANGED << target, tmp >>)
      /\ wpc = "threw" => (wpc' = "idle" /\ UNCHANGED << target, tmp >>) ]_vars

\* write of two lines over an existing target has thrown before any line
\* was put out; the target holds its previous content.
C28_Witness ==
  /\ wpc = "threw"
  /\ Len(wlines) = 2
  /\ wpos = 0
  /\ wold.exists
  /\ target = wold
  /\ target # File(wlines)
  /\ tmp = NoFile

\* The user a rentCar was called for
UserOf(mutator) == IF mutator = "rent" THEN << "u" >> ELSE << "v" >>

\* A snapshot, as loadCars returns it, holds the record
Holds(snap, record) == \E i \in 1..Len(snap) : snap[i] = record

\* C29: rentCar(carId, userId) on a car that is in the cache with status
\* "Available" returns true, sets amountDue to the car's pricePerDay, gives
\* the car the status "Rented by the user ID: " + userId and nothing else,
\* and has flushed (nothing is pending, the backend holds the rented car);
\* a returnCar(carId) that follows it returns true and leaves the car
\* "Available" again with its other fields unchanged.
C29_RentThenReturn ==
  [][ /\ ( /\ op'.name = "rentCar"
            /\ op'.input.id \in DOMAIN records
            /\ records[op'.input.id].status = Available )
          => /\ op'.ok
             /\ amountDue' = records[op'.input.id].pricePerDay
             /\ records' = [records EXCEPT ![op'.input.id].status =
                                             RentedBy \o UserOf(op'.input.mutator)]
             /\ records'[op'.input.id].status # Available
             /\ ~dirty'
             /\ Holds(loadCars(kind, mem', target'), records'[op'.input.id])
      /\ ( /\ op.name = "rentCar"
            /\ op.ok
            /\ op'.name = "returnCar"
            /\ op'.input.id = op.input.id )
          => /\ op'.ok
             /\ records' = [records EXCEPT ![op'.input.id].status = Available]
             /\ ~dirty' ]_vars

\* C30: addCar(record) on a repository without a record of that id adds
\* exactly that record (one record more, find returns it), returns and has
\* persisted it; addCar with an id that is in the repository throws and
\* leaves the cache, the dirty flag and the backend unchanged.
C30_AddCarAddsOrRejects ==
  [][ op'.name = "addCar" =>
        IF op'.input.seq[1].id \notin DOMAIN records
        THEN /\ op'.ok
             /\ records' = Put(records, op'.input.seq[1])
             /\ Cardinality(DOMAIN records') = Cardinality(DOMAIN records) + 1
             /\ find(records', op'.input.seq[1].id)
                  = [found |-> TRUE, rec |-> op'.input.seq[1]]
             /\ ~dirty'
             /\ Holds(loadCars(kind, mem', target'), op'.input.seq[1])
        ELSE /\ ~op'.ok
             /\ op'.err = "AlreadyExists"
             /\ UNCHANGED << records, dirty, mem, target >> ]_vars

\* C26: when persistCars of the file backend is handed a sequence with a
\* record that fails validation, writeAll throws ValidationFailed before
\* write is called: no temporary file is made, and the target keeps its
\* content or stays absent, also when other records of the sequence are
\* valid.
C26_InvalidRecordWritesNothing ==
  [][ ( /\ kind = "file"
        /\ op'.calls = 1
        /\ \E i \in 1..Len(op'.arg) : ~validate(op'.arg[i]) )
      => /\ ~op'.ok
         /\ op'.err = "ValidationFailed"
         /\ dirty'
         /\ UNCHANGED << target, tmp >> ]_vars

\* A flush of the cache { CarA, CarZero } to a file that holds CarA has
\* thrown ValidationFailed, and the file is as it was.
C26_Witness ==
  /\ kind = "file"
  /\ op.calls = 1
  /\ op.arg = << CarA, CarZero >>
  /\ op.err = "ValidationFailed"
  /\ target = File(<< LineOf(CarA) >>)
  /\ tmp = NoFile


\* C31: when two writers run write concurrently against the same target
\* with different lines, both complete without error and the target finally
\* holds the complete lines of exactly one of them, never a mixture and
\* never a missing file.
C31_ConcurrentWritersLastWins ==
  (\A w \in Writers : cw[w].pc \in { "done", "threw" })
    => /\ \A w \in Writers : cw[w].pc = "done"
       /\ target.exists
       /\ \E w \in Writers : target.lines = cw[w].lines


\* C32: if the final rename fails, the temporary file still exists
\* afterwards with the complete new content, and the error is propagated to
\* the caller of write.
C32_FailedRenameKeepsTmp ==
  [][ (wpc = "rename" /\ wpc' # "rename" /\ UNCHANGED fsVars)
        => /\ wpc' = "threw"
           /\ tmp'.exists
           /\ tmp'.lines = wlines ]_vars


\* The ids of the records of a sequence
IdsOf(seq) == { seq[i].id : i \in 1..Len(seq) }

\* The last record of a sequence with the id
LastOf(seq, id) ==
  seq[CHOOSE i \in 1..Len(seq) :
        seq[i].id = id /\ \A j \in (i + 1)..Len(seq) : seq[j].id # id]

\* The snapshot loadCars returns, read as a map from id to record (the last
\* entry of an id wins), is the cache
SnapshotIsCache(snap, recs) ==
  /\ IdsOf(snap) = DOMAIN recs
  /\ \A id \in DOMAIN recs : LastOf(snap, id) = recs[id]

\* C33: after every batch counted by ingest, the backend's durable snapshot
\* equals the repository's entire cache at that moment (not just the
\* records of that chunk) and pendingChanges() is false; after an ingest
\* that processed at least one record and raised no error, find(id) for each
\* ingested id returns the last record with that id in the file, and
\* records with other ids are unchanged.
C33_BatchPersistsWholeCache ==
  [][ /\ (metrics'.batches = metrics.batches + 1)
         => /\ ~dirty'
            /\ SnapshotIsCache(loadCars(kind, mem', target'), records')
      /\ (ipc # "returned" /\ ipc' = "returned" /\ metrics'.processedRecords >= 1)
         => \A id \in IdsOf(ilog'.delivered) :
              /\ find(records', id).found
              /\ find(records', id).rec = LastOf(ilog'.delivered, id)
      /\ (ipc \in { "stream", "tail" })
         => \A id \in DOMAIN records \ IdsOf(ilog'.delivered) :
              find(records', id) = find(records, id) ]_vars


\* C34: every record in the cache is stored under the key equal to its own
\* id, also after update with a mutator that changes the record's id, so
\* all() never returns two records with the same id.
C34_KeyIsId ==
  /\ \A k \in DOMAIN records : records[k].id = k
  /\ \A snapshot \in all(records) :
       \A i, j \in 1..Len(snapshot) : snapshot[i].id = snapshot[j].id => i = j


\* C35: whenever pendingChanges() is false, the backend's snapshot read as
\* an id-keyed map (last entry wins) equals the cache, so a reload at that
\* point leaves all() unchanged; in particular flush followed by reload is
\* the identity on all().
C35_CleanCacheIsSnapshot ==
  /\ ~pendingChanges
       => /\ SnapshotIsCache(loadCars(kind, mem, target), records)
          /\ all(reload(dirty, kind, target.exists, loadCars(kind, mem, target),
                        TRUE).records) = all(records)
  /\ (op.name = "flush" /\ op.ok)
       => all(reload(dirty, kind, target.exists, loadCars(kind, mem, target),
                     TRUE).records) = all(records)


\* C36: if persistCars raises during flush, the error propagates to the
\* caller of flush, the cache is unchanged and pendingChanges() stays true,
\* so that a later flush attempts the persist again; dirty is cleared only
\* after a persist that returned normally.
C36_FailedFlushStaysPending ==
  [][ /\ (op'.name = "flush" /\ op'.calls = 1 /\ ~op'.ok)
         => /\ op'.err # "none"
            /\ records' = records
            /\ pendingChanges'
            /\ \A snapshot \in all(records'), io \in IO :
                 flush(dirty', kind, mem', target', snapshot, io).calls = 1
      /\ (op'.name = "flush" /\ dirty /\ ~dirty')
         => (op'.calls = 1 /\ op'.ok /\ op'.err = "none") ]_vars

C36_Witness ==
  /\ op.name = "flush"
  /\ op.calls = 1
  /\ ~op.ok
  /\ op.again
  /\ pendingChanges


\* rentCar on a car that does not exist or whose status is not "Available"
\* returns false and changes nothing: the record, dirty, the backend and
\* amountDue are as before
RefusedRentChangesNothing ==
  (/\ op'.name = "rentCar"
   /\ \/ op'.input.id \notin DOMAIN records
      \/ records[op'.input.id].status # Available)
    => /\ ~op'.ok
       /\ op'.err = "none"
       /\ op'.calls = 0
       /\ UNCHANGED << records, dirty, mem, target, amountDue >>

\* A step that is no returnCar on car c
NotReturned(c) == ~(op'.name = "returnCar" /\ op'.input.id = c)

\* A step that is no ingest with a record of id c
NotReplaced(c) ==
  ~(op'.name = "serviceIngest"
    /\ \E i \in 1..Len(op'.input.seq) : op'.input.seq[i].id = c)

\* C37: rentCar on a car that does not exist or whose status is not
\* "Available" returns false and changes nothing; hence between a
\* successful rentCar(c, u) and the next returnCar(c) no rentCar(c, v)
\* succeeds and the rental marker keeps naming u.
C37_NoDoubleRental ==
  [][ /\ RefusedRentChangesNothing
      /\ \A c \in DOMAIN renter :
           /\ (op'.name = "rentCar" /\ op'.input.id = c) => ~op'.ok
           /\ NotReturned(c)
                => /\ c \in DOMAIN records'
                   /\ records'[c].status = RentedBy \o renter[c] ]_vars

\* C37, amended: rentCar on a car that does not exist or whose status is
\* not "Available" returns false and changes nothing; hence between a
\* successful rentCar(c, u) and the next returnCar(c), as long as no ingest
\* replaces the record of c, no rentCar(c, v) succeeds and the rental marker
\* keeps naming u.
C37_NoDoubleRentalUnlessReplaced ==
  [][ /\ RefusedRentChangesNothing
      /\ \A c \in DOMAIN renter :
           /\ (op'.name = "rentCar" /\ op'.input.id = c) => ~op'.ok
           /\ (NotReturned(c) /\ NotReplaced(c))
                => /\ c \in DOMAIN records'
                   /\ records'[c].status = RentedBy \o renter[c] ]_vars

C37_Witness ==
  /\ op.name = "rentCar"
  /\ op.input.mutator = "rentV"
  /\ ~op.ok
  /\ op.input.id \in DOMAIN renter
  /\ renter[op.input.id] = << "u" >>
  /\ records[op.input.id].status = RentedByU


\* C38: if addCar raises for any reason (the id exists already, validation
\* fails when the record is persisted, the backend cannot persist), then
\* find(record.id) afterwards answers as it did before the call, and later
\* flushes of unrelated changes are not made to fail by the rejected record.
C38_RejectedCarLeavesNoTrace ==
  [][ (op'.name = "addCar" /\ ~op'.ok)
        => /\ find(records', op'.input.seq[1].id) = find(records, op'.input.seq[1].id)
           /\ \A io \in IO :
                (\A before \in all(records) :
                   persistCars(kind, mem, target, before, io).ok)
                  => \A after \in all(records') :
                       persistCars(kind, mem', target', after, io).ok ]_vars


\* The ids a method of RentalService has changed the record of
Changed(name, input) ==
  IF name \in { "rentCar", "returnCar" } THEN { input.id } ELSE IdsOf(input.seq)

\* C39: whenever a RentalService mutation (addCar, rentCar returning true,
\* returnCar returning true, ingest, save) returns normally, pendingChanges()
\* is false and the backend snapshot contains the change just made.
C39_ReturnedMeansPersisted ==
  [][ (/\ op'.name \in { "addCar", "rentCar", "returnCar", "serviceIngest", "save" }
       /\ op'.err = "none"
       /\ op'.name \in { "rentCar", "returnCar" } => op'.ok)
        => /\ ~pendingChanges'
           /\ \A id \in Changed(op'.name, op'.input) :
                /\ id \in DOMAIN records'
                /\ Holds(loadCars(kind, mem', target'), records'[id]) ]_vars

=============================================================================
